---- MODULE Spec2Model ----
(***************************************************************************)
(* Model of src/app.py: the storefront scrapers (hero products, catalog,   *)
(* contact, social links) and the /insights and /competitors handlers      *)
(* with competitor discovery.  Every scraper is a loop over an input the   *)
(* remote host decides; the host's answers are the nondeterministic        *)
(* inputs of the actions.  Each component has its own specification; the   *)
(* variables of the other components stay at their initial values.         *)
(***************************************************************************)
EXTENDS Integers, Sequences, FiniteSets, TLC

VARIABLES
    \* scrape_hero_products
    heroDoc, heroNoise, heroOut, heroSeen, heroPc,
    \* scrape_catalog
    catPage, catProducts, catPc, catReq, catResp, catLens, catItems, catLast,
    \* scrape_contact
    conIdx, conEmails, conPhones, conPageUrl, conResult, conPc,
    \* scrape_social
    socDoc, socOut, socPc,
    \* insights / competitors handlers and find_competitor_candidates
    endpoint, limit, pc, clientsCreated, clientState, fetchOnClosed,
    brand, status, body, queries, qIdx, candidates, seenHosts,
    candIdx, filtered, compIdx, compLog, competitorContexts,
    \* scrape_important_links
    lnkIdx, lnkOut, lnkLog, lnkPc,
    \* get_brand_context and the sub-page fetches it drives
    aggPos, aggCtx, aggFailures, aggPc, aggStatus

heroVars == <<heroDoc, heroNoise, heroOut, heroSeen, heroPc>>
catVars  == <<catPage, catProducts, catPc, catReq, catResp, catLens, catItems, catLast>>
conVars  == <<conIdx, conEmails, conPhones, conPageUrl, conResult, conPc>>
socVars  == <<socDoc, socOut, socPc>>
reqVars  == <<endpoint, limit, pc, clientsCreated, clientState, fetchOnClosed,
              brand, status, body, queries, qIdx, candidates, seenHosts,
              candIdx, filtered, compIdx, compLog, competitorContexts>>
lnkVars  == <<lnkIdx, lnkOut, lnkLog, lnkPc>>
aggVars  == <<aggPos, aggCtx, aggFailures, aggPc, aggStatus>>
vars     == <<heroVars, catVars, conVars, socVars, reqVars, lnkVars, aggVars>>

\* ------------------------------------------------------------------ bounds
MaxDocLen   == 9    \* anchors of a home page that the hero scraper reads
MaxNoise    == 2    \* anchors of it that are not a fresh, titled product link
MaxItems    == 3    \* items the product-listing endpoint serves over all pages
MaxMatches  == 3    \* email, phone and mailto:/tel: matches on a contact page
MaxStr      == 2    \* distinct matched strings, numbered in their sort order
MaxSocLen   == 3    \* anchors of a home page that the social scraper reads
MaxLimit    == 2    \* the `limit` query parameter ranges over 1..MaxLimit
MaxHosts    == 5    \* distinct external hosts the search results link to

\* --------------------------------------------------------------- utilities
Min(a, b) == IF a < b THEN a ELSE b
Max(a, b) == IF a > b THEN a ELSE b

RECURSIVE SeqMax(_)
SeqMax(s) == IF s = <<>> THEN 0 ELSE Max(Head(s), SeqMax(Tail(s)))

\* str.strip() on the strings of the model: " " is the whitespace-only string.
Strip(s) == IF s = " " THEN "" ELSE s

\* Python's `a or b` on strings: the first operand unless it is empty.
StrOr(a, b) == IF a # "" THEN a ELSE b

\* ------------------------------------------------- scrape_hero_products
HeroCap == 8

\* urljoin(base, href): a relative and an absolute spelling of the same
\* product path resolve to one absolute URL, named here by its path number.
Absolutize(href) == href.path

\* The title the loop derives for an anchor: title attribute, else visible
\* text, stripped; when that is empty, the alt text of an embedded image.
AnchorTitle(a) ==
    LET t == Strip(StrOr(a.titleAttr, StrOr(a.text, "")))
    IN  IF t # "" THEN t
        ELSE IF a.alt # "" THEN Strip(a.alt) ELSE ""

TitleShapes ==
    { [titleAttr |-> "T", text |-> "",  alt |-> ""],     \* title attribute
      [titleAttr |-> "",  text |-> "X", alt |-> ""],     \* visible text
      [titleAttr |-> " ", text |-> "X", alt |-> "A"],    \* blank title, image alt
      [titleAttr |-> " ", text |-> "X", alt |-> ""] }    \* blank title, no image

MkAnchor(form, path, shape) ==
    [form |-> form, path |-> path, titleAttr |-> shape.titleAttr,
     text |-> shape.text, alt |-> shape.alt]

HeroPaths(doc) == SeqMax([i \in 1..Len(doc) |-> doc[i].path])

\* The fresh, titled product link: a path not linked before, with a title.
FreshAnchor(doc) ==
    MkAnchor("rel", HeroPaths(doc) + 1,
             [titleAttr |-> "T", text |-> "", alt |-> ""])

\* Any other anchor: the first path again, spelled absolutely, or a new
\* path, in every title shape.
NoiseAnchors(doc) ==
    LET m == HeroPaths(doc)
        spellings == (IF m > 0 THEN {<<"abs", 1>>} ELSE {})
                     \cup {<<"rel", m + 1>>}
    IN  { MkAnchor(sp[1], sp[2], sh) : sp \in spellings, sh \in TitleShapes }
        \ {FreshAnchor(doc)}

\* The anchors the document may continue with.
NextAnchors(doc, noise) ==
    {FreshAnchor(doc)} \cup (IF noise < MaxNoise THEN NoiseAnchors(doc) ELSE {})

\* `if not soup: return []`
HeroNoSoup ==
    /\ heroPc = "start"
    /\ heroPc' = "done"
    /\ UNCHANGED <<heroDoc, heroNoise, heroOut, heroSeen>>
    /\ UNCHANGED <<catVars, conVars, socVars, reqVars, lnkVars, aggVars>>

\* The loop body without the `break` at the cap: a faulty variant.
HeroAnchorNoBreak ==
    /\ heroPc \in {"start", "loop"}
    /\ Len(heroDoc) < MaxDocLen
    /\ \E a \in NextAnchors(heroDoc, heroNoise) :
         LET href  == Absolutize(a)
             title == AnchorTitle(a)
         IN  /\ heroDoc' = Append(heroDoc, a)
             /\ heroNoise' = heroNoise + (IF a = FreshAnchor(heroDoc) THEN 0 ELSE 1)
             /\ IF href \in heroSeen
                   THEN UNCHANGED <<heroOut, heroSeen>>
                   ELSE IF title # ""
                           THEN /\ heroOut' = Append(heroOut, [title |-> title, url |-> href])
                                /\ heroSeen' = heroSeen \cup {href}
                           ELSE UNCHANGED <<heroOut, heroSeen>>
             /\ heroPc' = "loop"
    /\ UNCHANGED <<catVars, conVars, socVars, reqVars, lnkVars, aggVars>>

\* One iteration of the loop over soup.select('a[href*="/products/"]').
HeroAnchor ==
    /\ heroPc \in {"start", "loop"}
    /\ Len(heroDoc) < MaxDocLen
    /\ \E a \in NextAnchors(heroDoc, heroNoise) :
         LET href  == Absolutize(a)
             title == AnchorTitle(a)
         IN  /\ heroDoc' = Append(heroDoc, a)
             /\ heroNoise' = heroNoise + (IF a = FreshAnchor(heroDoc) THEN 0 ELSE 1)
             /\ IF href \in heroSeen
                   THEN /\ UNCHANGED <<heroOut, heroSeen>>
                        /\ heroPc' = "loop"
                   ELSE /\ IF title # ""
                              THEN /\ heroOut' = Append(heroOut, [title |-> title, url |-> href])
                                   /\ heroSeen' = heroSeen \cup {href}
                              ELSE UNCHANGED <<heroOut, heroSeen>>
                        /\ heroPc' = IF Len(heroOut') >= HeroCap THEN "done" ELSE "loop"
    /\ UNCHANGED <<catVars, conVars, socVars, reqVars, lnkVars, aggVars>>

\* The selection is exhausted: `return out`.
HeroEnd ==
    /\ heroPc \in {"start", "loop"}
    /\ heroPc' = "done"
    /\ UNCHANGED <<heroDoc, heroNoise, heroOut, heroSeen>>
    /\ UNCHANGED <<catVars, conVars, socVars, reqVars, lnkVars, aggVars>>

\* ------------------------------------------------------- scrape_catalog
\* An absent value (Python None) and a present one.
None == [isNone |-> TRUE, val |-> 0]
Some(v) == [isNone |-> FALSE, val |-> v]

\* JSON values a variant's "price" field can hold.  A numeric string is
\* named by the number it spells; "null" also stands for a missing key.
PriceVals ==
    { [kind |-> "numstr",   num |-> 19],    \* "19"
      [kind |-> "numstr",   num |-> -5],    \* "-5"
      [kind |-> "badstr",   num |-> 0],     \* "abc"
      [kind |-> "emptystr", num |-> 0],     \* ""
      [kind |-> "number",   num |-> 0],     \* 0
      [kind |-> "number",   num |-> 7],     \* 7
      [kind |-> "null",     num |-> 0],     \* null, or no "price" key
      [kind |-> "object",   num |-> 0] }    \* {"amount": "5"}

\* Python truthiness of such a value, as `if v0.get("price"):` tests it.
Truthy(v) ==
    CASE v.kind = "numstr"   -> TRUE
      [] v.kind = "badstr"   -> TRUE
      [] v.kind = "emptystr" -> FALSE
      [] v.kind = "number"   -> v.num # 0
      [] v.kind = "null"     -> FALSE
      [] v.kind = "object"   -> TRUE

\* float(v): the number, or the exception it raises.
PyFloat(v) ==
    CASE v.kind = "numstr"   -> [exc |-> "none", val |-> v.num]
      [] v.kind = "number"   -> [exc |-> "none", val |-> v.num]
      [] v.kind = "badstr"   -> [exc |-> "ValueError", val |-> 0]
      [] v.kind = "emptystr" -> [exc |-> "ValueError", val |-> 0]
      [] v.kind = "null"     -> [exc |-> "TypeError", val |-> 0]
      [] v.kind = "object"   -> [exc |-> "TypeError", val |-> 0]

\* Items of a page: a product entry with or without variants, or an entry
\* of another shape on which the loop body raises (title not a string, ...).
CatItems ==
    { [shape |-> "ok", variants |-> TRUE, price |-> p] : p \in PriceVals }
    \cup { [shape |-> "ok", variants |-> FALSE, price |-> [kind |-> "null", num |-> 0]],
           [shape |-> "malformed", variants |-> FALSE, price |-> [kind |-> "null", num |-> 0]] }

\* A faulty variant: a ValueError leaves the price 0 instead of absent.
ItemPriceZeroOnError(it) ==
    IF it.variants /\ Truthy(it.price)
      THEN LET f == PyFloat(it.price)
           IN  CASE f.exc = "none"       -> [exc |-> "none", price |-> Some(f.val)]
                 [] f.exc = "ValueError" -> [exc |-> "none", price |-> Some(0)]
                 [] OTHER                -> [exc |-> f.exc, price |-> None]
      ELSE [exc |-> "none", price |-> None]

\* Lines 206-213: the price of one item, or the exception that escapes the
\* inner try (only ValueError is caught there).
ItemPrice(it) ==
    IF it.variants /\ Truthy(it.price)
      THEN LET f == PyFloat(it.price)
           IN  CASE f.exc = "none"       -> [exc |-> "none", price |-> Some(f.val)]
                 [] f.exc = "ValueError" -> [exc |-> "none", price |-> None]
                 [] OTHER                -> [exc |-> f.exc, price |-> None]
      ELSE [exc |-> "none", price |-> None]

\* Lines 200-214: the loop over the items of one page.  Products are
\* appended one by one; an exception leaves the ones appended so far.
RECURSIVE ProcessItems(_, _)
ProcessItems(items, products) ==
    IF items = <<>> THEN [products |-> products, exc |-> "none"]
    ELSE LET it == Head(items)
         IN  IF it.shape = "malformed"
               THEN [products |-> products, exc |-> "AttributeError"]
               ELSE LET ip == ItemPrice(it)
                    IN  IF ip.exc # "none"
                          THEN [products |-> products, exc |-> ip.exc]
                          ELSE ProcessItems(Tail(items),
                                            Append(products, [price |-> ip.price]))

\* A faulty variant: a non-200 status does not end the loop.
AfterPageRetry(kind, exc) ==
    IF (kind = "items" /\ exc = "none") \/ kind = "non200" THEN "loop" ELSE "done"

\* Whether the while loop goes on after a page (lines 194-199, 215-217).
AfterPage(kind, exc) ==
    IF kind = "items" /\ exc = "none" THEN "loop" ELSE "done"

RECURSIVE SeqsUpTo(_, _)
SeqsUpTo(S, n) ==
    IF n = 0 THEN {<<>>}
    ELSE LET shorter == SeqsUpTo(S, n - 1)
         IN  shorter \cup {Append(s, x) : s \in {t \in shorter : Len(t) = n - 1}, x \in S}

\* What the host answers to one page request.
CatResponses(room) ==
    { [kind |-> k, items |-> <<>>] : k \in {"neterr", "non200", "badjson", "empty"} }
    \cup { [kind |-> "items", items |-> s] : s \in SeqsUpTo(CatItems, room) \ {<<>>} }

\* One iteration of `while True`: request page catPage and handle the answer.
CatFetchPage ==
    /\ catPc = "loop"
    /\ \E resp \in CatResponses(MaxItems - Len(catProducts)) :
         LET r    == IF resp.kind = "items"
                        THEN ProcessItems(resp.items, catProducts)
                        ELSE [products |-> catProducts, exc |-> "none"]
             next == AfterPage(resp.kind, r.exc)
         IN  /\ catReq' = Append(catReq, catPage)
             /\ catResp' = Append(catResp, resp.kind)
             /\ catLast' = resp
             /\ catProducts' = r.products
             /\ catItems' = catItems \o SubSeq(resp.items, 1, Len(r.products) - Len(catProducts))
             /\ catLens' = Append(catLens, Len(r.products))
             /\ catPc' = next
             /\ catPage' = IF next = "loop" /\ resp.kind = "items" THEN catPage + 1 ELSE catPage
    /\ UNCHANGED <<heroVars, conVars, socVars, reqVars, lnkVars, aggVars>>

\* ------------------------------------------------------- scrape_contact
ContactPaths == <<"/pages/contact", "/pages/contact-us", "/contact">>

NoList == [isNone |-> TRUE, list |-> <<>>]
SomeList(l) == [isNone |-> FALSE, list |-> l]

\* set(xs)
PySet(xs) == {xs[i] : i \in 1..Len(xs)}

\* sorted(S): the elements of S in ascending order.
RECURSIVE PySorted(_)
PySorted(S) ==
    IF S = {} THEN <<>>
    ELSE LET m == CHOOSE x \in S : \A y \in S : x <= y
         IN  <<m>> \o PySorted(S \ {m})

\* A faulty variant: without `or None`.
ContactFieldKeepEmpty(xs) == SomeList(PySorted(PySet(xs)))

\* `sorted(set(xs)) or None` (lines 300-301).
ContactField(xs) ==
    LET l == PySorted(PySet(xs))
    IN  IF l = <<>> THEN NoList ELSE SomeList(l)

\* The mailto:/tel: anchors of a page, in document order.
RECURSIVE AnchorVals(_, _)
AnchorVals(anchors, scheme) ==
    IF anchors = <<>> THEN <<>>
    ELSE (IF Head(anchors).scheme = scheme THEN <<Head(anchors).val>> ELSE <<>>)
         \o AnchorVals(Tail(anchors), scheme)

ContactStrs == 1..MaxStr
ContactAnchors == [scheme : {"mailto", "tel"}, val : ContactStrs]

\* A resolving contact page: the regex matches of its text and its anchors.
ContactPages ==
    { pg \in [emailsTxt : SeqsUpTo(ContactStrs, MaxMatches),
              phonesTxt : SeqsUpTo(ContactStrs, MaxMatches),
              anchors   : SeqsUpTo(ContactAnchors, MaxMatches)] :
        Len(pg.emailsTxt) + Len(pg.phonesTxt) + Len(pg.anchors) <= MaxMatches }

ContactReturn(emails, phones, pageUrl) ==
    [emails |-> ContactField(emails), phones |-> ContactField(phones),
     contact_page |-> pageUrl]

\* fetch_html gives None for the path: `continue`; after the last path the
\* loop ends and the dict is returned.
ConMiss ==
    /\ conPc = "loop"
    /\ IF conIdx < Len(ContactPaths)
         THEN /\ conIdx' = conIdx + 1
              /\ UNCHANGED <<conResult, conPc>>
         ELSE /\ conResult' = ContactReturn(conEmails, conPhones, conPageUrl)
              /\ conPc' = "done"
              /\ UNCHANGED conIdx
    /\ UNCHANGED <<conEmails, conPhones, conPageUrl>>
    /\ UNCHANGED <<heroVars, catVars, socVars, reqVars, lnkVars, aggVars>>

\* The path resolves: collect the matches, `break`, return the dict.
ConHit ==
    /\ conPc = "loop"
    /\ \E pg \in ContactPages :
         /\ conEmails' = conEmails \o pg.emailsTxt \o AnchorVals(pg.anchors, "mailto")
         /\ conPhones' = conPhones \o pg.phonesTxt \o AnchorVals(pg.anchors, "tel")
         /\ conPageUrl' = ContactPaths[conIdx]
         /\ conResult' = ContactReturn(conEmails', conPhones', conPageUrl')
    /\ conPc' = "done"
    /\ UNCHANGED conIdx
    /\ UNCHANGED <<heroVars, catVars, socVars, reqVars, lnkVars, aggVars>>

\* -------------------------------------------------------- scrape_social
\* Host names are sequences of characters, so that `dom in host` is the
\* substring test the code performs.
SOCIAL_MAP ==
    << [dom |-> <<"i", "n", "s", "t", "a", "g", "r", "a", "m", ".", "c", "o", "m">>, key |-> "instagram"],
       [dom |-> <<"f", "a", "c", "e", "b", "o", "o", "k", ".", "c", "o", "m">>, key |-> "facebook"],
       [dom |-> <<"x", ".", "c", "o", "m">>, key |-> "twitter"],
       [dom |-> <<"t", "w", "i", "t", "t", "e", "r", ".", "c", "o", "m">>, key |-> "twitter"],
       [dom |-> <<"t", "i", "k", "t", "o", "k", ".", "c", "o", "m">>, key |-> "tiktok"],
       [dom |-> <<"y", "o", "u", "t", "u", "b", "e", ".", "c", "o", "m">>, key |-> "youtube"],
       [dom |-> <<"y", "o", "u", "t", "u", ".", "b", "e">>, key |-> "youtube"],
       [dom |-> <<"p", "i", "n", "t", "e", "r", "e", "s", "t", ".", "c", "o", "m">>, key |-> "pinterest"],
       [dom |-> <<"l", "i", "n", "k", "e", "d", "i", "n", ".", "c", "o", "m">>, key |-> "linkedin"] >>

SocHosts ==
    {
      <<"i", "n", "s", "t", "a", "g", "r", "a", "m", ".", "c", "o", "m">>,   \* instagram.com
      <<"w", "w", "w", ".", "f", "a", "c", "e", "b", "o", "o", "k", ".", "c", "o", "m">>,   \* www.facebook.com
      <<"X", ".", "c", "o", "m">>,   \* X.com
      <<"t", "w", "i", "t", "t", "e", "r", ".", "c", "o", "m">>,   \* twitter.com
      <<"n", "e", "t", "f", "l", "i", "x", ".", "c", "o", "m">>,   \* netflix.com
      <<"s", "h", "o", "p", ".", "c", "o", "m">>,   \* shop.com
      <<>> }   \* no host: a relative link

\* str.lower() on the characters the hosts use.
LowerChar(c) == IF c = "X" THEN "x" ELSE c
Lower(h) == [i \in 1..Len(h) |-> LowerChar(h[i])]

\* `dom in host`
Contains(dom, host) ==
    \E i \in 0..(Len(host) - Len(dom)) : SubSeq(host, i + 1, i + Len(dom)) = dom

\* classify_social: the key of the first SOCIAL_MAP entry whose domain
\* occurs in the lower-cased host; "None" when there is none.
ClassifySocial(href) ==
    LET host == Lower(href.host)
        hits == {i \in 1..Len(SOCIAL_MAP) : Contains(SOCIAL_MAP[i].dom, host)}
    IN  IF hits = {} THEN "None"
        ELSE SOCIAL_MAP[CHOOSE i \in hits : \A j \in hits : i <= j].key

SocHrefs == [host : SocHosts, path : {"/a", "/b"}]

\* A faulty variant: without `key not in out`, a later anchor overwrites.
SocPutOverwrite(out, key, href) ==
    IF key # "None"
      THEN [k \in DOMAIN out \cup {key} |-> IF k = key THEN href ELSE out[k]]
      ELSE out

\* `if key and key not in out: out[key] = a["href"]`
SocPut(out, key, href) ==
    IF key # "None" /\ key \notin DOMAIN out
      THEN [k \in DOMAIN out \cup {key} |-> IF k = key THEN href ELSE out[k]]
      ELSE out

\* `if not soup: return {}`
SocNoSoup ==
    /\ socPc = "start"
    /\ socPc' = "done"
    /\ UNCHANGED <<socDoc, socOut>>
    /\ UNCHANGED <<heroVars, catVars, conVars, reqVars, lnkVars, aggVars>>

\* One iteration of the loop over soup.find_all("a", href=True).
SocAnchor ==
    /\ socPc \in {"start", "loop"}
    /\ Len(socDoc) < MaxSocLen
    /\ \E href \in SocHrefs :
         /\ socDoc' = Append(socDoc, href)
         /\ socOut' = SocPut(socOut, ClassifySocial(href), href)
    /\ socPc' = "loop"
    /\ UNCHANGED <<heroVars, catVars, conVars, reqVars, lnkVars, aggVars>>

\* No anchor is left: `return out`.
SocEnd ==
    /\ socPc \in {"start", "loop"}
    /\ socPc' = "done"
    /\ UNCHANGED <<socDoc, socOut>>
    /\ UNCHANGED <<heroVars, catVars, conVars, reqVars, lnkVars, aggVars>>

\* ------------------------------------- handlers and competitor discovery
\* What get_brand_context yields for a store: an exception, or a context
\* of which the handlers read whether hero_products and catalog are empty
\* (0) or not (1).
CtxOutcomes ==
    { [raised |-> TRUE, hero |-> 0, catalog |-> 0] }
    \cup { [raised |-> FALSE, hero |-> h, catalog |-> c] : h \in {0, 1}, c \in {0, 1} }

NoCtx == [raised |-> FALSE, hero |-> 0, catalog |-> 0]

\* `not ctx.catalog and not ctx.hero_products`
CtxEmpty(c) == c.catalog = 0 /\ c.hero = 0

\* A faulty variant: without `except HTTPException: raise`.
ExceptStatusWrapAll(exc) == 500

\* The except clauses of the handlers: an HTTPException is re-raised as it
\* is, any other exception becomes a 500.
ExceptStatus(exc) ==
    IF exc.type = "HTTPException" THEN exc.code ELSE 500

\* A faulty variant: the client is closed on return only.
ClientAfterExitLeak(how) == IF how = "return" THEN "closed" ELSE "open"

\* `finally: client.close()`: the client after the handler is left by a
\* return or by an exception.
ClientAfterExit(how) == "closed"

\* A faulty variant: every competitor context is kept.
KeepCompetitorAlways(c) == TRUE

\* `cctx.catalog or cctx.hero_products`
KeepCompetitor(c) == c.catalog # 0 \/ c.hero # 0

SELF_HOST == 0

\* The href of an anchor of a search-results page: not starting with
\* "http", or an http(s) URL with an empty host, the store's own host or an
\* external host.  External hosts are numbered in order of appearance.
SearchHrefs(seen) ==
    { [http |-> FALSE, scheme |-> "", host |-> -1, path |-> "/l"] }
    \cup { [http |-> TRUE, scheme |-> sc, host |-> h, path |-> p] :
             sc \in {"http", "https"},
             h \in (-1)..Min(MaxHosts, Cardinality(seen) + 1),
             p \in {"/", "/shop"} }

\* normalize_root: scheme and host, the path dropped.
NormalizeRoot(href) == [scheme |-> href.scheme, host |-> href.host]

\* urlparse(url).netloc; -1 is the empty host.
Netloc(url) == url.host

searchVars == <<queries, qIdx, candidates, seenHosts>>
filterVars == <<candIdx, filtered>>
compVars   == <<compIdx, compLog, competitorContexts>>

\* A fetch on the client: remember one issued on a client that is not open.
Fetch == fetchOnClosed' = (fetchOnClosed \/ clientState # "open")

\* `client = httpx.Client(...)`
ReqOpen ==
    /\ pc = "start"
    /\ clientsCreated' = clientsCreated + 1
    /\ clientState' = "open"
    /\ pc' = "brand"
    /\ UNCHANGED <<endpoint, limit, fetchOnClosed, brand, status, body,
                   searchVars, filterVars, compVars>>
    /\ UNCHANGED <<heroVars, catVars, conVars, socVars, lnkVars, aggVars>>

\* The handler is left by an exception: except clauses, then finally.
Leave(exc) ==
    /\ status' = ExceptStatus(exc)
    /\ clientState' = ClientAfterExit("raise")
    /\ pc' = "done"
    /\ UNCHANGED body

\* `ctx = get_brand_context(client, base)` and the gate after it; /insights
\* returns here, /competitors goes on to the discovery.
BrandCtx ==
    /\ pc = "brand"
    /\ Fetch
    /\ \E c \in CtxOutcomes, named \in BOOLEAN :
         /\ brand' = c
         /\ IF c.raised
              THEN /\ Leave([type |-> "Exception", code |-> 0])
                   /\ UNCHANGED <<queries, qIdx>>
              ELSE IF CtxEmpty(c)
              THEN /\ Leave([type |-> "HTTPException", code |-> 401])
                   /\ UNCHANGED <<queries, qIdx>>
              ELSE IF endpoint = "insights"
              THEN /\ status' = 200
                   /\ body' = [brand |-> c, competitors |-> <<>>]
                   /\ clientState' = ClientAfterExit("return")
                   /\ pc' = "done"
                   /\ UNCHANGED <<queries, qIdx>>
              ELSE /\ queries' = IF named THEN 3 ELSE 2
                   /\ qIdx' = 1
                   /\ pc' = "search"
                   /\ UNCHANGED <<status, body, clientState>>
    /\ UNCHANGED <<endpoint, limit, clientsCreated, candidates, seenHosts,
                   filterVars, compVars>>
    /\ UNCHANGED <<heroVars, catVars, conVars, socVars, lnkVars, aggVars>>

\* One anchor of the results page of query qIdx (lines 405-419).
CandAnchor ==
    /\ pc = "search"
    /\ qIdx <= queries
    /\ Fetch
    /\ \E href \in SearchHrefs(seenHosts) :
         IF ~href.http \/ Netloc(href) = -1 \/ Netloc(href) = SELF_HOST
           THEN UNCHANGED <<candidates, seenHosts, qIdx>>
           ELSE LET root_cand == NormalizeRoot(href)
                    h == Netloc(root_cand)
                IN  IF h \in seenHosts
                      THEN UNCHANGED <<candidates, seenHosts, qIdx>>
                      ELSE /\ seenHosts' = seenHosts \cup {h}
                           /\ candidates' = Append(candidates, root_cand)
                           /\ qIdx' = IF Len(candidates') >= limit * 4
                                        THEN qIdx + 1 ELSE qIdx
    /\ UNCHANGED <<endpoint, limit, pc, clientsCreated, clientState, brand,
                   status, body, queries, filterVars, compVars>>
    /\ UNCHANGED <<heroVars, catVars, conVars, socVars, lnkVars, aggVars>>

\* The query is over: its request failed or gave a non-200 status, parsing
\* raised, or no anchor is left.  The loop takes the next query.
CandQueryEnd ==
    /\ pc = "search"
    /\ qIdx <= queries
    /\ Fetch
    /\ qIdx' = qIdx + 1
    /\ UNCHANGED <<endpoint, limit, pc, clientsCreated, clientState, brand,
                   status, body, queries, candidates, seenHosts, filterVars, compVars>>
    /\ UNCHANGED <<heroVars, catVars, conVars, socVars, lnkVars, aggVars>>

\* All queries are done: the filtering loop starts.
CandDone ==
    /\ pc = "search"
    /\ qIdx > queries
    /\ pc' = "filter"
    /\ candIdx' = 1
    /\ UNCHANGED <<endpoint, limit, clientsCreated, clientState, fetchOnClosed,
                   brand, status, body, searchVars, filtered, compVars>>
    /\ UNCHANGED <<heroVars, catVars, conVars, socVars, lnkVars, aggVars>>

\* One iteration of `for cand in candidates` (lines 424-431).
FilterProbe ==
    /\ pc = "filter"
    /\ candIdx <= Len(candidates)
    /\ Len(filtered) < limit
    /\ Fetch
    /\ \E shopify \in {"yes", "no", "raise"} :
         filtered' = IF shopify = "yes"
                       THEN Append(filtered, candidates[candIdx])
                       ELSE filtered
    /\ candIdx' = candIdx + 1
    /\ UNCHANGED <<endpoint, limit, pc, clientsCreated, clientState, brand,
                   status, body, searchVars, compVars>>
    /\ UNCHANGED <<heroVars, catVars, conVars, socVars, lnkVars, aggVars>>

\* The loop ends or breaks: `return filtered[:limit]`.
FilterReturn ==
    /\ pc = "filter"
    /\ candIdx > Len(candidates) \/ Len(filtered) >= limit
    /\ filtered' = SubSeq(filtered, 1, Min(limit, Len(filtered)))
    /\ pc' = "compete"
    /\ compIdx' = 1
    /\ UNCHANGED <<endpoint, limit, clientsCreated, clientState, fetchOnClosed,
                   brand, status, body, searchVars, candIdx, compLog,
                   competitorContexts>>
    /\ UNCHANGED <<heroVars, catVars, conVars, socVars, lnkVars, aggVars>>

\* One iteration of `for cu in competitor_urls` (lines 569-575).
CompCtx ==
    /\ pc = "compete"
    /\ compIdx <= Len(filtered)
    /\ Fetch
    /\ \E c \in CtxOutcomes :
         /\ compLog' = Append(compLog, [url |-> filtered[compIdx], ctx |-> c])
         /\ competitorContexts' =
              IF ~c.raised /\ KeepCompetitor(c)
                THEN Append(competitorContexts, [url |-> filtered[compIdx], ctx |-> c])
                ELSE competitorContexts
    /\ compIdx' = compIdx + 1
    /\ UNCHANGED <<endpoint, limit, pc, clientsCreated, clientState, brand,
                   status, body, searchVars, filterVars>>
    /\ UNCHANGED <<heroVars, catVars, conVars, socVars, lnkVars, aggVars>>

\* `return CompetitorResult(brand=brand_ctx, competitors=competitor_contexts)`
CompReturn ==
    /\ pc = "compete"
    /\ compIdx > Len(filtered)
    /\ status' = 200
    /\ body' = [brand |-> brand, competitors |-> competitorContexts]
    /\ clientState' = ClientAfterExit("return")
    /\ pc' = "done"
    /\ UNCHANGED <<endpoint, limit, clientsCreated, fetchOnClosed, brand,
                   searchVars, filterVars, compVars>>
    /\ UNCHANGED <<heroVars, catVars, conVars, socVars, lnkVars, aggVars>>

\* ----------------------------------------------- scrape_important_links
\* The probe list of lines 316-323, in order.
LINK_PATHS ==
    << [path |-> "/pages/track",          key |-> "order_tracking"],
       [path |-> "/pages/track-order",    key |-> "order_tracking"],
       [path |-> "/pages/order-tracking", key |-> "order_tracking"],
       [path |-> "/pages/contact",        key |-> "contact_us"],
       [path |-> "/blogs/news",           key |-> "blogs"],
       [path |-> "/blogs",                key |-> "blogs"] >>

\* The keys of `out` (line 315), each None at first.
LinkKeys == {"order_tracking", "contact_us", "blogs"}

\* `if soup: out[key] = urljoin(base, path)`
LinkPut(out, key, path, soup) ==
    IF soup THEN [out EXCEPT ![key] = path] ELSE out

\* One iteration of the loop: fetch_html gives a document or None for the
\* path, or lets an exception through; after the last path, `return out`.
LinkProbe ==
    /\ lnkPc = "loop"
    /\ \E got \in {"soup", "none", "raise"} :
         IF got = "raise"
           THEN /\ lnkPc' = "raised"
                /\ UNCHANGED <<lnkIdx, lnkOut, lnkLog>>
           ELSE /\ lnkLog' = Append(lnkLog, got = "soup")
                /\ lnkOut' = LinkPut(lnkOut, LINK_PATHS[lnkIdx].key,
                                     LINK_PATHS[lnkIdx].path, got = "soup")
                /\ lnkIdx' = lnkIdx + 1
                /\ lnkPc' = IF lnkIdx = Len(LINK_PATHS) THEN "done" ELSE "loop"
    /\ UNCHANGED <<heroVars, catVars, conVars, socVars, reqVars, aggVars>>

\* ---------------------------------------------------- get_brand_context
\* What one page request meets: a 200 with content ("ok"), a 200 with
\* nothing to extract ("blank"), another status, a network error
\* (httpx.RequestError), or an exception while the body is parsed.
FetchOutcomes == {"ok", "blank", "status", "network", "parse"}

\* The page-level failures among them.
PageFailures == {"status", "network", "parse"}

\* fetch_html (lines 135-142): the try covers the request and the parse and
\* catches httpx.RequestError only; any other exception leaves the function.
FetchHtml(o) ==
    LET raised == CASE o = "network" -> "RequestError"
                    [] o = "parse"   -> "ParserRejectedMarkup"
                    [] OTHER         -> "none"
    IN  IF raised = "RequestError" THEN [soup |-> FALSE, exc |-> "none"]
        ELSE IF raised # "none"    THEN [soup |-> FALSE, exc |-> raised]
        ELSE IF o = "status"       THEN [soup |-> FALSE, exc |-> "none"]
        ELSE                            [soup |-> TRUE,  exc |-> "none"]

\* The requests of get_brand_context in program order: the home page, the
\* catalog feed, then the paths of scrape_policies, scrape_faqs,
\* scrape_contact, scrape_about and scrape_important_links.
AGG_SITES ==
    << "home", "catalog",
       "policies", "policies", "policies", "policies", "policies",
       "faqs", "faqs", "faqs", "faqs",
       "contact", "contact", "contact",
       "about", "about", "about",
       "links", "links", "links", "links", "links", "links" >>

\* The first request of the scraper after the one requesting at `pos`.
NextStagePos(pos) ==
    LET later == {q \in (pos + 1)..Len(AGG_SITES) : AGG_SITES[q] # AGG_SITES[pos]}
    IN  IF later = {} THEN Len(AGG_SITES) + 1
        ELSE CHOOSE q \in later : \A r \in later : q <= r

\* The fields of the BrandContext under construction: lists by whether
\* they are empty (0) or by how many paths resolved.
EmptyCtx ==
    [home |-> FALSE, hero |-> 0, catalog |-> 0, policies |-> 0, faqs |-> FALSE,
     contact |-> FALSE, about |-> FALSE, links |-> 0]

\* What a scraper does with a fetched document `o` (soup is not None).
AggField(ctx, stage, o) ==
    CASE stage = "home"     -> [ctx EXCEPT !.home = TRUE,
                                           !.hero = IF o = "ok" THEN 1 ELSE 0]
      [] stage = "policies" -> [ctx EXCEPT !.policies = @ + 1]
      [] stage = "faqs"     -> [ctx EXCEPT !.faqs = (o = "ok")]
      [] stage = "contact"  -> [ctx EXCEPT !.contact = TRUE]
      [] stage = "about"    -> [ctx EXCEPT !.about = TRUE]
      [] stage = "links"    -> [ctx EXCEPT !.links = @ + 1]

\* Whether the scraper stops probing its paths after this document: the
\* first FAQ page with FAQs, the first contact page, the first about page.
AggStops(stage, o) ==
    \/ stage = "faqs" /\ o = "ok"
    \/ stage \in {"contact", "about"}

\* `return BrandContext(...)` and the gate of /insights after it.
AggReturn(ctx) ==
    IF CtxEmpty(ctx)
      THEN ExceptStatus([type |-> "HTTPException", code |-> 401])
      ELSE 200

\* One fetch_html call of the aggregation.
AggFetchHtml ==
    /\ aggPc = "run"
    /\ AGG_SITES[aggPos] # "catalog"
    /\ \E o \in FetchOutcomes :
         LET stage == AGG_SITES[aggPos]
             r     == FetchHtml(o)
             pos   == IF r.soup /\ AggStops(stage, o)
                        THEN NextStagePos(aggPos) ELSE aggPos + 1
         IN  /\ aggFailures' = aggFailures \cup ({o} \cap PageFailures)
             /\ IF r.exc # "none"
                  THEN /\ aggPc' = "raised"
                       /\ aggStatus' = ExceptStatus([type |-> r.exc, code |-> 0])
                       /\ UNCHANGED <<aggPos, aggCtx>>
                  ELSE /\ aggCtx' = IF r.soup THEN AggField(aggCtx, stage, o) ELSE aggCtx
                       /\ aggPos' = pos
                       /\ IF pos > Len(AGG_SITES)
                            THEN /\ aggPc' = "returned"
                                 /\ aggStatus' = AggReturn(aggCtx')
                            ELSE UNCHANGED <<aggPc, aggStatus>>
    /\ UNCHANGED <<heroVars, catVars, conVars, socVars, reqVars, lnkVars>>

\* scrape_catalog within the aggregation: a bad status, a network error
\* and a body that does not parse all end its loop (lines 194-195, 216-217).
AggCatalog ==
    /\ aggPc = "run"
    /\ AGG_SITES[aggPos] = "catalog"
    /\ \E o \in FetchOutcomes :
         /\ aggFailures' = aggFailures \cup ({o} \cap PageFailures)
         /\ aggCtx' = [aggCtx EXCEPT !.catalog = IF o = "ok" THEN 1 ELSE 0]
    /\ aggPos' = aggPos + 1
    /\ UNCHANGED <<aggPc, aggStatus>>
    /\ UNCHANGED <<heroVars, catVars, conVars, socVars, reqVars, lnkVars>>

\* --------------------------------------------------------- specifications
\* The state before any request: every scraper at its first statement.
Idle ==
    /\ heroDoc = <<>> /\ heroNoise = 0 /\ heroOut = <<>> /\ heroSeen = {}
    /\ heroPc = "start"
    /\ catPage = 1 /\ catProducts = <<>> /\ catPc = "loop" /\ catReq = <<>>
    /\ catResp = <<>> /\ catLens = <<>> /\ catItems = <<>>
    /\ catLast = [kind |-> "none", items |-> <<>>]
    /\ conIdx = 1 /\ conEmails = <<>> /\ conPhones = <<>> /\ conPageUrl = "None"
    /\ conResult = [emails |-> NoList, phones |-> NoList, contact_page |-> "None"]
    /\ conPc = "loop"
    /\ socDoc = <<>> /\ socOut = [k \in {} |-> 0] /\ socPc = "start"
    /\ pc = "start" /\ clientsCreated = 0 /\ clientState = "none"
    /\ fetchOnClosed = FALSE /\ brand = NoCtx /\ status = 0
    /\ body = [brand |-> NoCtx, competitors |-> <<>>]
    /\ queries = 0 /\ qIdx = 0 /\ candidates = <<>> /\ seenHosts = {}
    /\ candIdx = 0 /\ filtered = <<>> /\ compIdx = 0 /\ compLog = <<>>
    /\ competitorContexts = <<>>
    /\ lnkIdx = 1 /\ lnkLog = <<>> /\ lnkPc = "loop"
    /\ lnkOut = [k \in LinkKeys |-> "None"]
    /\ aggPos = 1 /\ aggCtx = EmptyCtx /\ aggFailures = {} /\ aggPc = "run"
    /\ aggStatus = 0
    /\ endpoint = "insights"
    /\ limit = 1

HeroNext == HeroNoSoup \/ HeroAnchor \/ HeroEnd
SpecHero == Idle /\ [][HeroNext]_vars

CatNext == CatFetchPage
SpecCatalog == Idle /\ [][CatNext]_vars

ConNext == ConMiss \/ ConHit
SpecContact == Idle /\ [][ConNext]_vars

SocNext == SocNoSoup \/ SocAnchor \/ SocEnd
SpecSocial == Idle /\ [][SocNext]_vars

LinkNext == LinkProbe
SpecLinks == Idle /\ [][LinkNext]_vars

AggNext == AggFetchHtml \/ AggCatalog
SpecAggregate == Idle /\ [][AggNext]_vars

\* A request to either endpoint, with any limit the query parameter admits.
Init ==
    /\ heroDoc = <<>> /\ heroNoise = 0 /\ heroOut = <<>> /\ heroSeen = {}
    /\ heroPc = "start"
    /\ catPage = 1 /\ catProducts = <<>> /\ catPc = "loop" /\ catReq = <<>>
    /\ catResp = <<>> /\ catLens = <<>> /\ catItems = <<>>
    /\ catLast = [kind |-> "none", items |-> <<>>]
    /\ conIdx = 1 /\ conEmails = <<>> /\ conPhones = <<>> /\ conPageUrl = "None"
    /\ conResult = [emails |-> NoList, phones |-> NoList, contact_page |-> "None"]
    /\ conPc = "loop"
    /\ socDoc = <<>> /\ socOut = [k \in {} |-> 0] /\ socPc = "start"
    /\ pc = "start" /\ clientsCreated = 0 /\ clientState = "none"
    /\ fetchOnClosed = FALSE /\ brand = NoCtx /\ status = 0
    /\ body = [brand |-> NoCtx, competitors |-> <<>>]
    /\ queries = 0 /\ qIdx = 0 /\ candidates = <<>> /\ seenHosts = {}
    /\ candIdx = 0 /\ filtered = <<>> /\ compIdx = 0 /\ compLog = <<>>
    /\ competitorContexts = <<>>
    /\ lnkIdx = 1 /\ lnkLog = <<>> /\ lnkPc = "loop"
    /\ lnkOut = [k \in LinkKeys |-> "None"]
    /\ aggPos = 1 /\ aggCtx = EmptyCtx /\ aggFailures = {} /\ aggPc = "run"
    /\ aggStatus = 0
    /\ endpoint \in {"insights", "competitors"}
    /\ limit \in 1..MaxLimit

Next ==
    \/ ReqOpen \/ BrandCtx
    \/ CandAnchor \/ CandQueryEnd \/ CandDone
    \/ FilterProbe \/ FilterReturn
    \/ CompCtx \/ CompReturn
Spec == Init /\ [][Next]_vars

\* ----------------------------------------------------------------- claims

\* C1: when get_brand_context returns a context whose hero_products and
\* catalog are both empty, /insights answers 401 (not 200, not 500); when
\* one of them is non-empty it answers 200 with that context.
InsightsGate ==
    (endpoint = "insights" /\ pc = "done" /\ ~brand.raised) =>
        IF brand.hero = 0 /\ brand.catalog = 0
          THEN status = 401
          ELSE status = 200 /\ body.brand = brand

InsightsGateWitness ==
    /\ endpoint = "insights" /\ pc = "done" /\ ~brand.raised
    /\ brand.hero = 0 /\ brand.catalog = 0
    /\ status = 401

\* C2: a successful /competitors response holds at most `limit` entries,
\* each with a non-empty catalog or non-empty hero_products; they are
\* exactly the aggregated candidates that neither raised nor came back
\* empty, and once the brand itself passed the gate the answer is 200.
CompetitorsGate ==
    (endpoint = "competitors" /\ pc = "done" /\ ~brand.raised
       /\ (brand.hero # 0 \/ brand.catalog # 0)) =>
        /\ status = 200
        /\ Len(body.competitors) <= limit
        /\ \A i \in 1..Len(body.competitors) :
             /\ ~body.competitors[i].ctx.raised
             /\ body.competitors[i].ctx.catalog > 0 \/ body.competitors[i].ctx.hero > 0
        /\ LET ok(e) == ~e.ctx.raised /\ (e.ctx.catalog > 0 \/ e.ctx.hero > 0)
           IN  body.competitors = SelectSeq(compLog, ok)

CompetitorsGateWitness ==
    /\ endpoint = "competitors" /\ pc = "done" /\ status = 200
    /\ limit = 2
    /\ Len(candidates) > limit
    /\ Len(compLog) = 2
    /\ compLog[1].ctx.raised
    /\ ~compLog[2].ctx.raised /\ compLog[2].ctx.hero = 0 /\ compLog[2].ctx.catalog = 0
    /\ body.competitors = <<>>

\* C3: scrape_hero_products holds at most 8 products, no two with the same
\* absolute URL, each made at the first titled occurrence of its URL and
\* listed in the document order of those occurrences; below the cap no
\* titled URL is missing.
HeroTitledAt(u) ==
    {i \in 1..Len(heroDoc) : Absolutize(heroDoc[i]) = u /\ AnchorTitle(heroDoc[i]) # ""}

HeroFirstTitled(u) == CHOOSE i \in HeroTitledAt(u) : \A j \in HeroTitledAt(u) : i <= j

HeroCapDistinctOrdered ==
    LET n     == Len(heroOut)
        urls  == {Absolutize(heroDoc[k]) : k \in {k \in 1..Len(heroDoc) : AnchorTitle(heroDoc[k]) # ""}}
        first == [u \in urls |-> HeroFirstTitled(u)]
    IN  /\ n <= HeroCap
        /\ \A i, j \in 1..n : i # j => heroOut[i].url # heroOut[j].url
        /\ \A i \in 1..n :
             /\ heroOut[i].url \in urls
             /\ heroOut[i].title = AnchorTitle(heroDoc[first[heroOut[i].url]])
        /\ \A i \in 1..(n - 1) : first[heroOut[i].url] < first[heroOut[i + 1].url]
        /\ n < HeroCap => urls = {heroOut[i].url : i \in 1..n}

HeroCapWitness ==
    /\ heroPc = "done"
    /\ Len(heroOut) = HeroCap
    /\ Len(heroDoc) > HeroCap
    /\ \E i \in 1..(Len(heroOut) - 1) : heroOut[i].url > heroOut[i + 1].url
    /\ \E i, j \in 1..Len(heroDoc) :
         i < j /\ heroDoc[i] # heroDoc[j] /\ Absolutize(heroDoc[i]) = Absolutize(heroDoc[j])

\* C4: scrape_catalog requests pages 1, 2, 3, ... in increasing order, the
\* product list never shrinks from page to page, and a page with a non-200
\* status or no products is the last one requested: the loop is over.
CatStops == {"non200", "empty"}

CatalogPagination ==
    /\ \A i \in 1..Len(catReq) : catReq[i] = i
    /\ Len(catResp) = Len(catReq) /\ Len(catLens) = Len(catReq)
    /\ \A i \in 1..Len(catLens) :
         catLens[i] >= (IF i = 1 THEN 0 ELSE catLens[i - 1])
    /\ \A i \in 1..Len(catResp) :
         catResp[i] \in CatStops => (i = Len(catResp) /\ catPc = "done")

CatalogPaginationWitness ==
    /\ catPc = "done"
    /\ Len(catReq) >= 3
    /\ catResp[Len(catResp)] \in CatStops
    /\ catLens[1] < catLens[2]

\* C5: every item of a fetched page yields a Product whose price is the
\* parsed number when the first variant's price field parses as a number
\* and absent when it does not; a price that does not parse removes
\* neither the item nor the items after it.
CatParses(it) == it.variants /\ it.price.kind \in {"numstr", "number"}

CatalogPricePerItem ==
    (catLast.kind = "items"
       /\ \A j \in 1..Len(catLast.items) : catLast.items[j].shape = "ok") =>
        LET prev == IF Len(catLens) > 1 THEN catLens[Len(catLens) - 1] ELSE 0
        IN  /\ Len(catProducts) = prev + Len(catLast.items)
            /\ \A j \in 1..Len(catLast.items) :
                 catProducts[prev + j].price =
                     IF CatParses(catLast.items[j])
                       THEN Some(catLast.items[j].price.num)
                       ELSE None

\* C6, as stated: every catalog price is absent or a nonnegative number.
CatalogPriceNonnegative ==
    \A k \in 1..Len(catProducts) :
        catProducts[k].price.isNone \/ catProducts[k].price.val >= 0

\* C6, amended: every catalog price is absent or exactly the number the
\* first variant's price field spells, whatever its sign.
CatalogPriceAsParsed ==
    /\ Len(catItems) = Len(catProducts)
    /\ \A k \in 1..Len(catProducts) :
         \/ catProducts[k].price.isNone
         \/ /\ CatParses(catItems[k])
            /\ catProducts[k].price.val = catItems[k].price.num

CatalogPriceWitness ==
    /\ catPc = "done"
    /\ \E k \in 1..Len(catProducts) :
         ~catProducts[k].price.isNone /\ catProducts[k].price.val < 0
    /\ \E k \in 1..Len(catProducts) :
         ~catProducts[k].price.isNone /\ catProducts[k].price.val > 0

\* C7: scrape_contact returns emails and phones each as an explicit absent
\* value or as a non-empty, strictly ascending list of exactly the distinct
\* matches; never as an empty list.
ContactFieldOk(f, raw) ==
    IF f.isNone THEN raw = <<>>
    ELSE /\ f.list # <<>>
         /\ \A i \in 1..(Len(f.list) - 1) : f.list[i] < f.list[i + 1]
         /\ {f.list[i] : i \in 1..Len(f.list)} = {raw[i] : i \in 1..Len(raw)}

ContactListsShape ==
    /\ ContactFieldOk(conResult.emails, conEmails)
    /\ ContactFieldOk(conResult.phones, conPhones)

ContactListsWitness ==
    /\ conPc = "done"
    /\ conResult.emails.isNone
    /\ ~conResult.phones.isNone
    /\ Len(conResult.phones.list) = 2
    /\ Len(conPhones) = 3
    /\ conPhones[1] > conPhones[2]

\* C8: scrape_social maps every platform to the href of the first anchor,
\* in document order, that classifies to it, and has no key for a platform
\* no anchor classifies to.
SocPlatforms == {SOCIAL_MAP[i].key : i \in 1..Len(SOCIAL_MAP)}

SocialFirstWins ==
    /\ DOMAIN socOut \subseteq SocPlatforms
    /\ \A key \in SocPlatforms :
         LET at == {i \in 1..Len(socDoc) : ClassifySocial(socDoc[i]) = key}
         IN  IF at = {}
               THEN key \notin DOMAIN socOut
               ELSE /\ key \in DOMAIN socOut
                    /\ socOut[key] = socDoc[CHOOSE i \in at : \A j \in at : i <= j]

SocialFirstWinsWitness ==
    /\ socPc = "done"
    /\ \E i, j \in 1..Len(socDoc) :
         /\ i < j
         /\ socDoc[i] # socDoc[j]
         /\ ClassifySocial(socDoc[i]) = "twitter"
         /\ ClassifySocial(socDoc[j]) = "twitter"
         /\ socOut["twitter"] = socDoc[i]

\* C9: a request creates exactly one client, the client is closed when the
\* handler is left, by a response, a 401 or a 500 alike, and no fetch is
\* issued on a client that is not open.
ClientLifecycle ==
    /\ clientsCreated = (IF pc = "start" THEN 0 ELSE 1)
    /\ pc = "done" => clientState = "closed"
    /\ pc \notin {"start", "done"} => clientState = "open"
    /\ ~fetchOnClosed

ClientLifecycleWitness ==
    /\ pc = "done"
    /\ endpoint = "competitors"
    /\ status = 500
    /\ clientsCreated = 1
    /\ clientState = "closed"

\* C10: in find_competitor_candidates the candidate list never holds more
\* than 4 * limit entries, its hosts are pairwise distinct, and none is
\* the origin's own host.
CandidatesCapped ==
    /\ Len(candidates) <= 4 * limit
    /\ \A i, j \in 1..Len(candidates) :
         i # j => Netloc(candidates[i]) # Netloc(candidates[j])
    /\ \A i \in 1..Len(candidates) : Netloc(candidates[i]) # SELF_HOST

\* C11: for each key of the important-links mapping the value is the
\* first path, in probe order, that resolved; a later resolving path of
\* the same key never replaces it.
LinkFirstAt(key) ==
    {i \in 1..Len(lnkLog) : lnkLog[i] /\ LINK_PATHS[i].key = key}

ImportantLinksFirstWins ==
    \A key \in LinkKeys :
        IF LinkFirstAt(key) = {}
          THEN lnkOut[key] = "None"
          ELSE lnkOut[key] =
                 LINK_PATHS[CHOOSE i \in LinkFirstAt(key) :
                              \A j \in LinkFirstAt(key) : i <= j].path

\* C12: a page-level failure of a sub-page fetch (bad status, network
\* error, exception while parsing the body) never leaves get_brand_context
\* as an exception and never makes /insights answer 500.
PageFailuresAbsorbed ==
    aggFailures # {} => (aggPc # "raised" /\ aggStatus # 500)

====
